---- MODULE Spec2Model ----
(***************************************************************************)
(* The DCF valuation script dcf_app.py as a state machine.                 *)
(*                                                                         *)
(* One script run is: get_dcf_inputs (the input normaliser, lines 11-87),  *)
(* then the main logic (lines 132-234), which writes widgets to the page   *)
(* as it goes.  Streamlit runs the script again whenever a sidebar widget  *)
(* changes; get_dcf_inputs is cached by st.cache_data, so a rerun reuses   *)
(* the record the first run returned.                                      *)
(*                                                                         *)
(* Numbers are exact fractions <<n, d>> in lowest terms with d > 0,        *)
(* extended by the three values numpy float division produces on a zero    *)
(* divisor: <<1, 0>> (inf), <<-1, 0>> (-inf) and <<0, 0>> (nan).  Rounding *)
(* of IEEE doubles and signed zeros are not modelled.                      *)
(***************************************************************************)
EXTENDS Integers, Sequences, FiniteSets, TLC

(***************************************************************************)
(* Arithmetic on extended fractions                                        *)
(***************************************************************************)
AbsI(x) == IF x < 0 THEN -x ELSE x

Sgn(x) == IF x < 0 THEN -1 ELSE IF x > 0 THEN 1 ELSE 0

RECURSIVE GCD(_, _)
GCD(a, b) == IF b = 0 THEN a ELSE GCD(b, a % b)

\* gcd used for cancelling; never 0
G(a, b) == LET g == GCD(AbsI(a), AbsI(b)) IN IF g = 0 THEN 1 ELSE g

Norm(n, d) ==
    IF d = 0 THEN <<Sgn(n), 0>>
    ELSE LET g == G(n, d)
             s == IF d < 0 THEN -1 ELSE 1
         IN  <<(s * n) \div g, (s * d) \div g>>

R(i) == <<i, 1>>

Frac(n, d) == Norm(n, d)

Inf == <<1, 0>>

NaN == <<0, 0>>

IsNaN(a) == a = NaN

IsFinite(a) == a[2] # 0

Neg(a) == <<-a[1], a[2]>>

Abs(a) == <<AbsI(a[1]), a[2]>>

Mul(a, b) ==
    LET g1 == G(a[1], b[2])
        g2 == G(b[1], a[2])
    IN  Norm((a[1] \div g1) * (b[1] \div g2), (a[2] \div g2) * (b[2] \div g1))

Recip(b) == IF b[1] < 0 THEN <<-b[2], -b[1]>> ELSE <<b[2], b[1]>>

Div(a, b) == Mul(a, Recip(b))

Add(a, b) ==
    IF a[2] = 0 /\ b[2] = 0 THEN (IF a = b THEN a ELSE NaN)
    ELSE IF a[2] = 0 THEN a
    ELSE IF b[2] = 0 THEN b
    ELSE LET g == G(a[2], b[2])
         IN  Norm(a[1] * (b[2] \div g) + b[1] * (a[2] \div g), (a[2] \div g) * b[2])

Sub(a, b) == Add(a, Neg(b))

Lt(a, b) ==
    IF IsNaN(a) \/ IsNaN(b) THEN FALSE
    ELSE IF a[2] = 0 /\ b[2] = 0 THEN a[1] < b[1]
    ELSE LET g == G(a[2], b[2])
         IN  a[1] * (b[2] \div g) < b[1] * (a[2] \div g)

Gt(a, b) == Lt(b, a)

Le(a, b) == ~IsNaN(a) /\ ~IsNaN(b) /\ ~Lt(b, a)

RECURSIVE Pow(_, _)
Pow(a, k) == IF k = 0 THEN R(1) ELSE Mul(a, Pow(a, k - 1))


(***************************************************************************)
(* Python values that are not numbers                                      *)
(***************************************************************************)
(* Every number is a pair, so these one-element tuples differ from all.    *)
\* a key the provider's dict does not have
Absent == <<"absent">>

\* Python's None
None == <<"None">>

\* a local name no statement has assigned yet
Unbound == <<"unbound">>

IsNumber(v) == Len(v) = 2

(***************************************************************************)
(* The provider's answers (yfinance), drawn when get_dcf_inputs fetches    *)
(***************************************************************************)
MaxShares == 1

MaxPrice == 1

MaxCash == 1

\* quarterly rows, most recent quarter first; a fifth quarter shows iloc[:4]
RevenueRows == {<<1, 1, 1, 1, 3>>, <<0, 0, 0, 0, 3>>}

OpCashRow == <<1, 1, 0, 0, 5>>

CapitalExpenditureRow == <<-1, -1, 0, 0, -4>>

CapexRow == <<-1, 0, 0, 0, -4>>

EbitRow == <<2, 2, 1, 1, 7>>

PretaxRows == {<<1, 1, 1, 1, 2>>, <<0, 0, 0, 0, 2>>}

TaxProvisionRow == <<1, 1, 0, 0, 6>>

MarketCaps == {Absent, R(0), R(10)}

TotalDebts == {Absent, R(-10), R(10)}

Betas == {Absent, R(6)}

\* ^TNX close, in percent; Absent when the history call fails
TreasuryYields == {Absent, R(4)}

Optional(S) == {Absent} \cup {R(i) : i \in S}

\* a table is a function from the labels in its index to rows
Tables(required, optional) ==
    UNION {[(DOMAIN required) \cup ls -> UNION {required[l] : l \in DOMAIN required}
                                          \cup UNION {optional[l] : l \in ls}]
           : ls \in SUBSET (DOMAIN optional)}

TableOK(t, required, optional) ==
    \A l \in DOMAIN t :
        t[l] \in (IF l \in DOMAIN required THEN required[l] ELSE optional[l])

CashFlowTables ==
    LET req == [l \in {"Operating Cash Flow"} |-> {OpCashRow}]
        opt == [l \in {"Capital Expenditure", "Capex"} |->
                   IF l = "Capex" THEN {CapexRow} ELSE {CapitalExpenditureRow}]
    IN  {t \in Tables(req, opt) : TableOK(t, req, opt)}

FinancialsTables ==
    LET req == [l \in {} |-> {}]
        opt == [l \in {"Total Revenue", "EBIT", "Pretax Income", "Tax Provision"} |->
                   CASE l = "Total Revenue" -> RevenueRows
                     [] l = "EBIT" -> {EbitRow}
                     [] l = "Pretax Income" -> PretaxRows
                     [] OTHER -> {TaxProvisionRow}]
    IN  {t \in Tables(req, opt) : TableOK(t, req, opt)}

Infos ==
    [marketCap : MarketCaps,
     sharesOutstanding : Optional(-1 .. MaxShares),
     currentPrice : Optional(1 .. MaxPrice),
     beta : Betas,
     totalDebt : TotalDebts,
     totalCash : Optional(1 .. MaxCash)]

Providers ==
    [info : Infos,
     quarterly_cash_flow : CashFlowTables,
     quarterly_financials : FinancialsTables,
     tnx : TreasuryYields]


(***************************************************************************)
(* get_dcf_inputs: the pieces of its computation                           *)
(***************************************************************************)
\* dict.get(key): None when the key is missing
Get(d, key) == IF d[key] = Absent THEN None ELSE d[key]

\* dict.get(key, default)
GetDefault(d, key, default) == IF d[key] = Absent THEN default ELSE d[key]

RECURSIVE SumFirst(_, _)
SumFirst(row, k) ==
    IF k = 0 \/ row = <<>> THEN 0 ELSE Head(row) + SumFirst(Tail(row), k - 1)

\* row.iloc[:4].sum()
TTM(row) == R(SumFirst(row, 4))

\* cap_ex with the two labels tried in the other order
cap_ex_CapexFirst(q_cashflow) ==
    IF "Capex" \in DOMAIN q_cashflow
    THEN R(SumFirst(q_cashflow["Capex"], 4))
    ELSE IF "Capital Expenditure" \in DOMAIN q_cashflow
    THEN R(SumFirst(q_cashflow["Capital Expenditure"], 4))
    ELSE R(0)

\* lines 32-37: the first CapEx label the cash-flow table has, else 0
cap_ex(q_cashflow) ==
    IF "Capital Expenditure" \in DOMAIN q_cashflow
    THEN TTM(q_cashflow["Capital Expenditure"])
    ELSE IF "Capex" \in DOMAIN q_cashflow
    THEN TTM(q_cashflow["Capex"])
    ELSE R(0)

default_risk_free_rate == Frac(4, 100)

\* lines 45-49
risk_free_rate(tnx) ==
    IF tnx = Absent THEN default_risk_free_rate ELSE Div(tnx, R(100))

market_return == Frac(10, 100)

default_beta == R(1)

\* line 52
cost_of_equity(rf, beta) == Add(rf, Mul(beta, Sub(market_return, rf)))

\* lines 55-60: the locals the try block leaves behind
cost_of_debt_try(q_financials) ==
    IF "EBIT" \notin DOMAIN q_financials
    THEN [ttm_ebit |-> Unbound, ttm_pretax |-> Unbound, implied_interest |-> R(0)]
    ELSE IF "Pretax Income" \notin DOMAIN q_financials
    THEN [ttm_ebit |-> TTM(q_financials["EBIT"]), ttm_pretax |-> Unbound,
          implied_interest |-> R(0)]
    ELSE LET e == TTM(q_financials["EBIT"])
             p == TTM(q_financials["Pretax Income"])
         IN  [ttm_ebit |-> e, ttm_pretax |-> p, implied_interest |-> Abs(Sub(e, p))]

\* line 63
cost_of_debt(implied_interest, total_debt) ==
    IF Gt(total_debt, R(0)) THEN Div(implied_interest, total_debt) ELSE R(0)

default_tax_rate == Frac(21, 100)

\* lines 66-70: ttm_pretax is the local the cost-of-debt block may have left unbound
tax_rate(q_financials, ttm_pretax) ==
    IF "Tax Provision" \notin DOMAIN q_financials THEN default_tax_rate
    ELSE IF ttm_pretax = Unbound THEN default_tax_rate
    ELSE IF ttm_pretax # R(0)
    THEN Div(TTM(q_financials["Tax Provision"]), ttm_pretax)
    ELSE default_tax_rate

\* lines 73-76, for market_cap + total_debt # 0
wacc_calc(market_cap, total_debt, coe, cod, tax) ==
    LET total_val == Add(market_cap, total_debt)
        equity_w == Div(market_cap, total_val)
        debt_w == Div(total_debt, total_val)
    IN  Add(Mul(equity_w, coe), Mul(debt_w, Mul(cod, Sub(R(1), tax))))

ticker_input == "AAPL"

\* lines 78-87
dcf_inputs(current_price, shares, ttm_revenue, ttm_fcf, wacc, total_debt, cash) ==
    [kind |-> "dict",
     Ticker |-> ticker_input,
     CurrentPrice |-> current_price,
     SharesOutstanding |-> shares,
     TTMRevenue |-> ttm_revenue,
     TTMFCF |-> ttm_fcf,
     WACC |-> wacc,
     TotalDebt |-> total_debt,
     Cash |-> cash]

ReturnsNone == [kind |-> "None"]

Raises(e) == [kind |-> "raise", exception |-> e]

NoValue == [kind |-> "unbound"]

\* get_dcf_inputs as a whole: what a call returns or raises for provider answers p
get_dcf_inputs(p) ==
    LET info == p.info
        fin == p.quarterly_financials
        cf == p.quarterly_cash_flow
    IN  IF info.marketCap = Absent THEN ReturnsNone
        ELSE IF "Total Revenue" \notin DOMAIN fin THEN Raises("KeyError")
        ELSE IF "Operating Cash Flow" \notin DOMAIN cf THEN Raises("KeyError")
        ELSE LET ttm_fcf == Add(TTM(cf["Operating Cash Flow"]), cap_ex(cf))
                 coe == cost_of_equity(risk_free_rate(p.tnx),
                                       GetDefault(info, "beta", default_beta))
                 t == cost_of_debt_try(fin)
                 total_debt == GetDefault(info, "totalDebt", R(0))
                 cod == cost_of_debt(t.implied_interest, total_debt)
                 tax == tax_rate(fin, t.ttm_pretax)
             IN  IF Add(info.marketCap, total_debt) = R(0)
                 THEN Raises("ZeroDivisionError")
                 ELSE dcf_inputs(Get(info, "currentPrice"),
                                 Get(info, "sharesOutstanding"),
                                 TTM(fin["Total Revenue"]), ttm_fcf,
                                 wacc_calc(info.marketCap, total_debt, coe, cod, tax),
                                 total_debt, GetDefault(info, "totalCash", R(0)))


(***************************************************************************)
(* Sidebar widgets (lines 94-129)                                          *)
(***************************************************************************)
\* slider positions, in percent; the first run sees the widgets' defaults
GrowthPercents == {R(5), R(0), R(-10)}

TerminalGrowthPercents == {Frac(5, 2), R(5)}

MarginPercents == {R(20)}

default_growth_rate_percent == R(5)

default_terminal_growth_percent == Frac(5, 2)

\* lines 106, 112, 120-127
Sidebar(growth_rate_percent, terminal_growth_percent, use_manual_margin, manual_margin_percent) ==
    [growth_rate |-> Div(growth_rate_percent, R(100)),
     terminal_growth_rate |-> Div(terminal_growth_percent, R(100)),
     projected_margin |-> IF use_manual_margin
                          THEN Div(manual_margin_percent, R(100))
                          ELSE None]

DefaultWidgets ==
    Sidebar(default_growth_rate_percent, default_terminal_growth_percent, FALSE, R(20))

WidgetStates ==
    {Sidebar(g, t, u, mp) : g \in GrowthPercents, t \in TerminalGrowthPercents,
                            u \in BOOLEAN, mp \in MarginPercents}

(***************************************************************************)
(* Main logic: the pieces of its computation                               *)
(***************************************************************************)
\* the projection horizon, range(1, 6)
Horizon == 5

Billion == 1000000000

\* x/1e9 as it goes into the projection table, left unevaluated
PerBillion(x) == [dividend |-> x, divisor |-> Billion]

\* ProjectionStep growing the base revenue linearly instead of compounding
ProjectionStep_Linear(current_rev, growth_rate, final_margin_used, wacc, year) ==
    LET rev == Add(current_rev, growth_rate)
        estimated_fcf == Mul(rev, final_margin_used)
        disc_factor == Div(R(1), Pow(Add(R(1), wacc), year))
    IN  [current_rev |-> rev,
         estimated_fcf |-> estimated_fcf,
         disc_factor |-> disc_factor,
         pv_fcf |-> Mul(estimated_fcf, disc_factor)]

\* lines 175-178: one pass of the loop body
ProjectionStep(current_rev, growth_rate, final_margin_used, wacc, year) ==
    LET rev == Mul(current_rev, Add(R(1), growth_rate))
        estimated_fcf == Mul(rev, final_margin_used)
        disc_factor == Div(R(1), Pow(Add(R(1), wacc), year))
    IN  [current_rev |-> rev,
         estimated_fcf |-> estimated_fcf,
         disc_factor |-> disc_factor,
         pv_fcf |-> Mul(estimated_fcf, disc_factor)]

\* lines 184-189
ProjectionRow(year, step) ==
    [Year |-> year,
     Revenue |-> PerBillion(step.current_rev),
     FCF |-> PerBillion(step.estimated_fcf),
     PVofFCF |-> PerBillion(step.pv_fcf)]

\* the guard with < in place of <=
TerminalGuardFails_Strict(wacc, terminal_growth_rate) == Lt(wacc, terminal_growth_rate)

\* line 198
TerminalGuardFails(wacc, terminal_growth_rate) == Le(wacc, terminal_growth_rate)

\* line 202
TerminalValue(fcf_year_5, terminal_growth_rate, wacc) ==
    Div(Mul(fcf_year_5, Add(R(1), terminal_growth_rate)),
        Sub(wacc, terminal_growth_rate))

RECURSIVE SumSeq(_)
SumSeq(xs) == IF xs = <<>> THEN R(0) ELSE Add(Head(xs), SumSeq(Tail(xs)))

\* the comparison with >= in place of >
IsUndervalued_OrEqual(calculated_share_price, actual_price) ==
    Le(actual_price, calculated_share_price)

\* line 228
IsUndervalued(calculated_share_price, actual_price) ==
    Gt(calculated_share_price, actual_price)

\* lines 228-231: the widget and the text, with the value the format is given
VerdictWidget(calculated_share_price, actual_price, difference) ==
    IF IsUndervalued(calculated_share_price, actual_price)
    THEN [widget |-> "success", label |-> "UNDERVALUED", by |-> Abs(difference)]
    ELSE [widget |-> "error", label |-> "OVERVALUED", by |-> Abs(difference)]


(***************************************************************************)
(* State                                                                   *)
(***************************************************************************)
VARIABLES
    pc,        \* where the script run is
    widgets,   \* growth_rate, terminal_growth_rate, projected_margin (sidebar)
    cache,     \* what st.cache_data holds for get_dcf_inputs(ticker_input)
    stock,     \* <<p>> while get_dcf_inputs runs: the provider's answers; else <<>>
    loc,       \* the locals of get_dcf_inputs
    ret,       \* the value get_dcf_inputs is returning
    data,      \* main logic: data
    m,         \* main logic: the other locals
    screen,    \* the widgets written to the page in this run, in order
    exc        \* the exception being propagated, or "none"

vars == <<pc, widgets, cache, stock, loc, ret, data, m, screen, exc>>

NoLocals ==
    [market_cap |-> Unbound, shares_outstanding |-> Unbound, current_price |-> Unbound,
     ttm_revenue |-> Unbound, op_cash |-> Unbound, cap_ex |-> Unbound,
     ttm_fcf |-> Unbound, beta |-> Unbound, risk_free_rate |-> Unbound,
     cost_of_equity |-> Unbound, ttm_ebit |-> Unbound, ttm_pretax |-> Unbound,
     implied_interest |-> Unbound, total_debt |-> Unbound, cost_of_debt |-> Unbound,
     tax_rate |-> Unbound, wacc |-> Unbound]

NoMain ==
    [revenue |-> Unbound, fcf |-> Unbound, wacc |-> Unbound, shares |-> Unbound,
     cash |-> Unbound, debt |-> Unbound, historical_margin |-> Unbound,
     final_margin_used |-> Unbound, margin_label |-> "",
     future_fcf |-> <<>>, discount_factors |-> <<>>, discounted_fcf |-> <<>>,
     projection_data |-> <<>>, current_rev |-> Unbound,
     fcf_year_5 |-> Unbound, terminal_value |-> Unbound,
     pv_terminal_value |-> Unbound, sum_pv_fcf |-> Unbound,
     enterprise_value |-> Unbound, equity_value |-> Unbound,
     calculated_share_price |-> Unbound, actual_price |-> Unbound,
     difference |-> Unbound]

\* The five-year sums of powers of (1 + growth_rate)/(1 + wacc) have to fit
\* TLC's 32-bit integers: the provider answers drawn are those whose WACC is a
\* multiple of 1/20 and at most 40%.
WaccDenominators == {1, 2, 4, 5, 10, 20}

MaxWacc == Frac(2, 5)

Representable(p) ==
    LET r == get_dcf_inputs(p)
    IN  r.kind = "dict" => r.WACC[2] \in WaccDenominators /\ Le(r.WACC, MaxWacc)

Init ==
    /\ pc = "call"
    /\ widgets = DefaultWidgets
    /\ cache = NoValue
    /\ stock = <<>>
    /\ loc = NoLocals
    /\ ret = NoValue
    /\ data = NoValue
    /\ m = NoMain
    /\ screen = <<>>
    /\ exc = "none"

(***************************************************************************)
(* get_dcf_inputs, statement by statement                                  *)
(***************************************************************************)
\* line 135, cached: st.cache_data answers without running the function
CallCached ==
    /\ pc = "call"
    /\ cache # NoValue
    /\ data' = cache
    /\ pc' = "main_data"
    /\ UNCHANGED <<widgets, cache, stock, loc, ret, m, screen, exc>>

\* line 135 and line 12, not cached: the function runs and asks the provider
CallGetDcfInputs ==
    /\ pc = "call"
    /\ cache = NoValue
    /\ \E p \in Providers :
          /\ Representable(p)
          /\ stock' = <<p>>
    /\ pc' = "gdi_info"
    /\ UNCHANGED <<widgets, cache, loc, ret, data, m, screen, exc>>

\* an exception leaves get_dcf_inputs: its frame goes, main's handler is next
Raise(e) ==
    /\ exc' = e
    /\ pc' = "except"
    /\ stock' = <<>>
    /\ loc' = NoLocals
    /\ UNCHANGED ret

\* lines 14-21
GdiInfo ==
    /\ pc = "gdi_info"
    /\ LET info == stock[1].info
       IN  IF info.marketCap = Absent
           THEN /\ ret' = ReturnsNone
                /\ pc' = "gdi_return"
                /\ UNCHANGED <<loc, stock, exc>>
           ELSE /\ loc' = [loc EXCEPT !.market_cap = Get(info, "marketCap"),
                                      !.shares_outstanding = Get(info, "sharesOutstanding"),
                                      !.current_price = Get(info, "currentPrice")]
                /\ pc' = "gdi_ttm"
                /\ UNCHANGED <<ret, stock, exc>>
    /\ UNCHANGED <<widgets, cache, data, m, screen>>

\* lines 23-39
GdiTtm ==
    /\ pc = "gdi_ttm"
    /\ LET q_cashflow == stock[1].quarterly_cash_flow
           q_financials == stock[1].quarterly_financials
       IN  IF \/ "Total Revenue" \notin DOMAIN q_financials
              \/ "Operating Cash Flow" \notin DOMAIN q_cashflow
           THEN Raise("KeyError")
           ELSE LET op_cash == TTM(q_cashflow["Operating Cash Flow"])
                    capex == cap_ex(q_cashflow)
                IN  /\ loc' = [loc EXCEPT
                                  !.ttm_revenue = TTM(q_financials["Total Revenue"]),
                                  !.op_cash = op_cash,
                                  !.cap_ex = capex,
                                  !.ttm_fcf = Add(op_cash, capex)]
                    /\ pc' = "gdi_coe"
                    /\ UNCHANGED <<ret, stock, exc>>
    /\ UNCHANGED <<widgets, cache, data, m, screen>>

\* lines 41-52
GdiCostOfEquity ==
    /\ pc = "gdi_coe"
    /\ LET beta == GetDefault(stock[1].info, "beta", default_beta)
           rf == risk_free_rate(stock[1].tnx)
       IN  loc' = [loc EXCEPT !.beta = beta,
                              !.risk_free_rate = rf,
                              !.cost_of_equity = cost_of_equity(rf, beta)]
    /\ pc' = "gdi_cod"
    /\ UNCHANGED <<widgets, cache, stock, ret, data, m, screen, exc>>

\* lines 54-63
GdiCostOfDebt ==
    /\ pc = "gdi_cod"
    /\ LET t == cost_of_debt_try(stock[1].quarterly_financials)
           total_debt == GetDefault(stock[1].info, "totalDebt", R(0))
       IN  loc' = [loc EXCEPT !.ttm_ebit = t.ttm_ebit,
                              !.ttm_pretax = t.ttm_pretax,
                              !.implied_interest = t.implied_interest,
                              !.total_debt = total_debt,
                              !.cost_of_debt = cost_of_debt(t.implied_interest, total_debt)]
    /\ pc' = "gdi_tax"
    /\ UNCHANGED <<widgets, cache, stock, ret, data, m, screen, exc>>

\* lines 65-70
GdiTaxRate ==
    /\ pc = "gdi_tax"
    /\ loc' = [loc EXCEPT !.tax_rate = tax_rate(stock[1].quarterly_financials,
                                                loc.ttm_pretax)]
    /\ pc' = "gdi_wacc"
    /\ UNCHANGED <<widgets, cache, stock, ret, data, m, screen, exc>>

\* lines 72-87
GdiWacc ==
    /\ pc = "gdi_wacc"
    /\ IF Add(loc.market_cap, loc.total_debt) = R(0)
       THEN Raise("ZeroDivisionError")
       ELSE LET wacc == wacc_calc(loc.market_cap, loc.total_debt, loc.cost_of_equity,
                                  loc.cost_of_debt, loc.tax_rate)
            IN  /\ loc' = [loc EXCEPT !.wacc = wacc]
                /\ ret' = dcf_inputs(loc.current_price, loc.shares_outstanding,
                                     loc.ttm_revenue, loc.ttm_fcf, wacc, loc.total_debt,
                                     GetDefault(stock[1].info, "totalCash", R(0)))
                /\ pc' = "gdi_return"
                /\ UNCHANGED <<stock, exc>>
    /\ UNCHANGED <<widgets, cache, data, m, screen>>

\* the return reaches line 135: st.cache_data stores it, data is assigned
GdiReturn ==
    /\ pc = "gdi_return"
    /\ data' = ret
    /\ cache' = ret
    /\ ret' = NoValue
    /\ stock' = <<>>
    /\ loc' = NoLocals
    /\ pc' = "main_data"
    /\ UNCHANGED <<widgets, m, screen, exc>>


(***************************************************************************)
(* Main logic, statement by statement                                      *)
(***************************************************************************)
Show(w) == screen' = Append(screen, w)

Metric(label, value) == [widget |-> "metric", label |-> label, value |-> value]

Write(label, value) == [widget |-> "write", label |-> label, value |-> value]

ErrorBox(text) == [widget |-> "error", label |-> text]

\* an exception raised inside the try block of the main logic
MainRaise(e) ==
    /\ exc' = e
    /\ pc' = "except"

\* lines 137-138
CouldNotFetch ==
    /\ pc = "main_data"
    /\ data = ReturnsNone
    /\ Show(ErrorBox("Could not fetch data. Please check the ticker."))
    /\ pc' = "done"
    /\ UNCHANGED <<widgets, cache, stock, loc, ret, data, m, exc>>

\* lines 140-157
Calculations ==
    /\ pc = "main_data"
    /\ data # ReturnsNone
    /\ LET historical_margin == Div(data.TTMFCF, data.TTMRevenue)
       IN  m' = [m EXCEPT !.revenue = data.TTMRevenue,
                          !.fcf = data.TTMFCF,
                          !.wacc = data.WACC,
                          !.shares = data.SharesOutstanding,
                          !.cash = data.Cash,
                          !.debt = data.TotalDebt,
                          !.historical_margin = historical_margin,
                          !.final_margin_used =
                              IF widgets.projected_margin = None
                              THEN historical_margin
                              ELSE widgets.projected_margin,
                          !.margin_label =
                              IF widgets.projected_margin = None
                              THEN "Historical (TTM)"
                              ELSE "Manual Projection"]
    /\ pc' = "key_stats"
    /\ UNCHANGED <<widgets, cache, stock, loc, ret, data, screen, exc>>

\* lines 159-163: formatting None with :.2f is a TypeError
KeyStats ==
    /\ pc = "key_stats"
    /\ IF data.CurrentPrice = None
       THEN /\ MainRaise("TypeError")
            /\ UNCHANGED screen
       ELSE /\ screen' = screen \o
                   <<Metric("Current Price", data.CurrentPrice),
                     Metric("WACC", m.wacc),
                     Metric("FCF Margin (" \o m.margin_label \o ")",
                            m.final_margin_used)>>
            /\ pc' = "projections"
            /\ UNCHANGED exc
    /\ UNCHANGED <<widgets, cache, stock, loc, ret, data, m>>

\* lines 165-173
InitProjections ==
    /\ pc = "projections"
    /\ m' = [m EXCEPT !.future_fcf = <<>>,
                      !.discount_factors = <<>>,
                      !.discounted_fcf = <<>>,
                      !.projection_data = <<>>,
                      !.current_rev = m.revenue]
    /\ pc' = "loop"
    /\ UNCHANGED <<widgets, cache, stock, loc, ret, data, screen, exc>>

\* lines 174-189: one pass of for year in range(1, 6)
ProjectYear ==
    /\ pc = "loop"
    /\ Len(m.future_fcf) < Horizon
    /\ LET year == Len(m.future_fcf) + 1
           step == ProjectionStep(m.current_rev, widgets.growth_rate,
                                  m.final_margin_used, m.wacc, year)
       IN  m' = [m EXCEPT !.current_rev = step.current_rev,
                          !.future_fcf = Append(@, step.estimated_fcf),
                          !.discount_factors = Append(@, step.disc_factor),
                          !.discounted_fcf = Append(@, step.pv_fcf),
                          !.projection_data = Append(@, ProjectionRow(year, step))]
    /\ UNCHANGED <<pc, widgets, cache, stock, loc, ret, data, screen, exc>>

\* lines 191-194
DisplayProjectionTable ==
    /\ pc = "loop"
    /\ Len(m.future_fcf) = Horizon
    /\ screen' = screen \o
           <<[widget |-> "subheader", label |-> "5-Year Projections"],
             [widget |-> "dataframe", rows |-> m.projection_data]>>
    /\ pc' = "terminal"
    /\ UNCHANGED <<widgets, cache, stock, loc, ret, data, m, exc>>

\* lines 196-200: st.stop() ends the run; except Exception does not catch it
TerminalGuard ==
    /\ pc = "terminal"
    /\ m' = [m EXCEPT !.fcf_year_5 = m.future_fcf[Len(m.future_fcf)]]
    /\ IF TerminalGuardFails(m.wacc, widgets.terminal_growth_rate)
       THEN /\ Show(ErrorBox("Error: WACC must be higher than Terminal Growth Rate."))
            /\ pc' = "stopped"
       ELSE /\ pc' = "terminal_value"
            /\ UNCHANGED screen
    /\ UNCHANGED <<widgets, cache, stock, loc, ret, data, exc>>

\* lines 202-203
TerminalValueStep ==
    /\ pc = "terminal_value"
    /\ LET tv == TerminalValue(m.fcf_year_5, widgets.terminal_growth_rate, m.wacc)
       IN  m' = [m EXCEPT !.terminal_value = tv,
                          !.pv_terminal_value =
                              Mul(tv, m.discount_factors[Len(m.discount_factors)])]
    /\ pc' = "final_value"
    /\ UNCHANGED <<widgets, cache, stock, loc, ret, data, screen, exc>>

\* lines 205-212: dividing by None is a TypeError; dividing a numpy float by 0 is not
FinalValueSteps ==
    /\ pc = "final_value"
    /\ LET sum_pv_fcf == SumSeq(m.discounted_fcf)
           enterprise_value == Add(sum_pv_fcf, m.pv_terminal_value)
           equity_value == Sub(Add(enterprise_value, m.cash), m.debt)
       IN  IF m.shares = None
           THEN /\ m' = [m EXCEPT !.sum_pv_fcf = sum_pv_fcf,
                                  !.enterprise_value = enterprise_value,
                                  !.equity_value = equity_value]
                /\ MainRaise("TypeError")
           ELSE LET calculated_share_price == Div(equity_value, m.shares)
                IN  /\ m' = [m EXCEPT
                                !.sum_pv_fcf = sum_pv_fcf,
                                !.enterprise_value = enterprise_value,
                                !.equity_value = equity_value,
                                !.calculated_share_price = calculated_share_price,
                                !.actual_price = data.CurrentPrice,
                                !.difference =
                                    Sub(R(1), Div(calculated_share_price,
                                                  data.CurrentPrice))]
                    /\ pc' = "results"
                    /\ UNCHANGED exc
    /\ UNCHANGED <<widgets, cache, stock, loc, ret, data, screen>>

\* lines 214-223
ResultsDisplay ==
    /\ pc = "results"
    /\ screen' = screen \o
           <<[widget |-> "divider"],
             [widget |-> "subheader", label |-> "Valuation Results"],
             Write("Enterprise Value", PerBillion(m.enterprise_value)),
             Write("Equity Value", PerBillion(m.equity_value)),
             Write("PV of Terminal Value", PerBillion(m.pv_terminal_value))>>
    /\ pc' = "verdict"
    /\ UNCHANGED <<widgets, cache, stock, loc, ret, data, m, exc>>

\* lines 225-231
Verdict ==
    /\ pc = "verdict"
    /\ screen' = screen \o
           <<Metric("Fair Value (Calculated)", m.calculated_share_price),
             VerdictWidget(m.calculated_share_price, m.actual_price, m.difference)>>
    /\ pc' = "done"
    /\ UNCHANGED <<widgets, cache, stock, loc, ret, data, m, exc>>

\* lines 233-234
ExceptHandler ==
    /\ pc = "except"
    /\ Show(ErrorBox("An error occurred: " \o exc))
    /\ exc' = "none"
    /\ pc' = "done"
    /\ UNCHANGED <<widgets, cache, stock, loc, ret, data, m>>

\* a sidebar widget changes: Streamlit clears the page and runs the script again
\* (followed here for the runs that find get_dcf_inputs in the cache)
Rerun ==
    /\ pc \in {"done", "stopped"}
    /\ cache # NoValue
    /\ \E w \in WidgetStates : widgets' = w
    /\ data' = NoValue
    /\ m' = NoMain
    /\ screen' = <<>>
    /\ pc' = "call"
    /\ UNCHANGED <<cache, stock, loc, ret, exc>>

Next ==
    \/ CallCached
    \/ CallGetDcfInputs
    \/ GdiInfo
    \/ GdiTtm
    \/ GdiCostOfEquity
    \/ GdiCostOfDebt
    \/ GdiTaxRate
    \/ GdiWacc
    \/ GdiReturn
    \/ CouldNotFetch
    \/ Calculations
    \/ KeyStats
    \/ InitProjections
    \/ ProjectYear
    \/ DisplayProjectionTable
    \/ TerminalGuard
    \/ TerminalValueStep
    \/ FinalValueSteps
    \/ ResultsDisplay
    \/ Verdict
    \/ ExceptHandler
    \/ Rerun

Spec == Init /\ [][Next]_vars


(***************************************************************************)
(* Reading the page and the run's end                                      *)
(***************************************************************************)
WaccErrorBox == ErrorBox("Error: WACC must be higher than Terminal Growth Rate.")

\* an st.error that reports a failure (the OVERVALUED verdict is an st.error too)
IsErrorMessage(w) == w.widget = "error" /\ w.label # "OVERVALUED"

IsVerdict(w) == w.widget \in {"success", "error"} /\ w.label \in {"UNDERVALUED", "OVERVALUED"}

\* a widget that shows part of the valuation result
IsResultData(w) == w.widget \in {"metric", "dataframe", "write", "success"} \/ IsVerdict(w)

\* the widgets on the page
Page == {screen[i] : i \in 1 .. Len(screen)}

Last == screen[Len(screen)]

RunOver == pc \in {"done", "stopped"}

\* the run has failed: an exception is on its way to the handler, or the last
\* thing on the page of a finished run is an error message
Failed == pc = "except" \/ (RunOver /\ Len(screen) > 0 /\ IsErrorMessage(Last))

InvalidAssumptionError == pc = "stopped" /\ Last = WaccErrorBox

Normalized == data.kind = "dict"

Positive(v) == IsNumber(v) /\ v[2] > 0 /\ v[1] > 0

NonPositive(v) == IsNumber(v) /\ v[2] > 0 /\ v[1] <= 0

\* a <= b for two finite fractions, by cross-multiplication
AtMost(a, b) == a[1] * b[2] <= b[1] * a[2]

FinalValuesUnbound ==
    /\ m.terminal_value = Unbound
    /\ m.pv_terminal_value = Unbound
    /\ m.enterprise_value = Unbound
    /\ m.equity_value = Unbound
    /\ m.calculated_share_price = Unbound

IsFinalValueWidget(w) ==
    \/ w.widget = "write"
    \/ (w.widget = "metric" /\ w.label = "Fair Value (Calculated)")
    \/ IsVerdict(w)

(***************************************************************************)
(* C1                                                                      *)
(***************************************************************************)
\* C1: with a normalized record (current price present) and wacc <=
\* terminal_growth_rate, equality included, no terminal value, enterprise value,
\* equity value, fair value or verdict is ever computed or shown, and the run
\* can only end stopped on the WACC error; with wacc > terminal_growth_rate and
\* positive shares the WACC error is never shown.
C1_WaccGuard ==
    (Normalized /\ data.CurrentPrice # None) =>
        LET below == AtMost(data.WACC, widgets.terminal_growth_rate)
        IN  /\ below =>
                /\ FinalValuesUnbound
                /\ ~(\E w \in Page : IsFinalValueWidget(w))
                /\ RunOver => InvalidAssumptionError
            /\ (~below /\ Positive(data.SharesOutstanding)) =>
                /\ pc # "stopped"
                /\ \A i \in 1 .. Len(screen) : screen[i] # WaccErrorBox

\* the boundary: a run stopped by the guard with wacc = terminal_growth_rate
C1_Witness ==
    /\ InvalidAssumptionError
    /\ Normalized
    /\ data.WACC = widgets.terminal_growth_rate

(***************************************************************************)
(* C2                                                                      *)
(***************************************************************************)
\* C2: a run that fails has put no part of the valuation result on the page.
C2_NoPartialResult == Failed => ~(\E w \in Page : IsResultData(w))

(***************************************************************************)
(* C3                                                                      *)
(***************************************************************************)
\* C3: with shares_outstanding <= 0 no fair value per share is computed, no
\* verdict is shown, and a finished run has ended in an error.
C3_NonPositiveShares ==
    (Normalized /\ NonPositive(data.SharesOutstanding)) =>
        /\ m.calculated_share_price = Unbound
        /\ ~(\E w \in Page : IsVerdict(w))
        /\ RunOver => Failed

(***************************************************************************)
(* C4                                                                      *)
(***************************************************************************)
\* C4: get_dcf_inputs never returns a record when market_cap + total_debt <= 0.
C4_DegenerateCapitalStructure ==
    (pc = "gdi_return" /\ stock[1].info.marketCap # Absent) =>
        LET total_debt == IF stock[1].info.totalDebt = Absent
                          THEN 0 ELSE stock[1].info.totalDebt[1]
        IN  stock[1].info.marketCap[1] + total_debt <= 0 => ret.kind # "dict"

(***************************************************************************)
(* C5                                                                      *)
(***************************************************************************)
\* C5: get_dcf_inputs returns no record when market cap, shares outstanding or
\* current price is missing.
C5_RequiredQuantities ==
    (pc = "gdi_return" /\ \E k \in {"marketCap", "sharesOutstanding", "currentPrice"} :
                             stock[1].info[k] = Absent)
        => ret.kind # "dict"

(***************************************************************************)
(* C9                                                                      *)
(***************************************************************************)
\* C9: when the ^TNX proxy is unavailable the risk-free rate used is 0.04, and
\* what get_dcf_inputs returns differs from what it returns, all else equal,
\* when the proxy answers 4 (percent).
C9_FallbackObservable ==
    (pc = "gdi_return" /\ ret.kind = "dict" /\ stock[1].tnx = Absent) =>
        /\ loc.risk_free_rate = Frac(4, 100)
        /\ ret # get_dcf_inputs([stock[1] EXCEPT !.tnx = R(4)])

(***************************************************************************)
(* C10                                                                     *)
(***************************************************************************)
\* C10: tax_rate is TTM tax provision / TTM pretax income when both rows are in
\* the table and TTM pretax income is not 0, and 0.21 otherwise.
C10_TaxRate ==
    (stock # <<>> /\ loc.tax_rate # Unbound) =>
        LET fin == stock[1].quarterly_financials
            both == {"Tax Provision", "Pretax Income"} \subseteq DOMAIN fin
        IN  loc.tax_rate =
                IF both /\ SumFirst(fin["Pretax Income"], 4) # 0
                THEN Frac(SumFirst(fin["Tax Provision"], 4),
                          SumFirst(fin["Pretax Income"], 4))
                ELSE Frac(21, 100)


(***************************************************************************)
(* C6                                                                      *)
(***************************************************************************)
IsProjectionTable(w) == w.widget = "dataframe"

ProjectionTable ==
    screen[CHOOSE i \in 1 .. Len(screen) : IsProjectionTable(screen[i])].rows

\* C6: with wacc > terminal_growth_rate, wacc > 0 and positive shares, the
\* projection table has exactly 5 rows, for years 1..5 in order; each row's
\* revenue is the previous row's (TTM revenue for year 1) times 1 + growth_rate;
\* the discount factors are 1/(1 + wacc)^t and strictly decreasing.
C6_Projection ==
    (/\ Normalized
     /\ (\E w \in Page : IsProjectionTable(w))
     /\ Positive(data.WACC)
     /\ ~AtMost(data.WACC, widgets.terminal_growth_rate)
     /\ Positive(data.SharesOutstanding)) =>
        LET rows == ProjectionTable
            df == m.discount_factors
            previous(t) == IF t = 1 THEN data.TTMRevenue ELSE rows[t - 1].Revenue.dividend
        IN  /\ Len(rows) = 5
            /\ Len(df) = 5
            /\ \A t \in 1 .. 5 :
                  /\ rows[t].Year = t
                  /\ rows[t].Revenue.divisor = Billion
                  /\ rows[t].Revenue.dividend =
                         Mul(previous(t), Add(R(1), widgets.growth_rate))
                  /\ Mul(df[t], Pow(Add(R(1), data.WACC), t)) = R(1)
                  /\ t > 1 => Lt(df[t], df[t - 1])

\* a finished valuation of a company with revenue, under a growth rate that is not 0
C6_Witness ==
    /\ pc = "done"
    /\ Normalized
    /\ (\E w \in Page : IsProjectionTable(w))
    /\ Positive(data.WACC)
    /\ ~AtMost(data.WACC, widgets.terminal_growth_rate)
    /\ Positive(data.SharesOutstanding)
    /\ Positive(data.TTMRevenue)
    /\ widgets.growth_rate # R(0)
    /\ IsVerdict(Last)

(***************************************************************************)
(* C7                                                                      *)
(***************************************************************************)
\* fair value above the price; inf is above, -inf and nan are not
Above(fair, price) ==
    IF IsFinite(fair) THEN fair[1] * price[2] > price[1] * fair[2] ELSE fair = Inf

\* C7: a completed valuation shows UNDERVALUED exactly when the fair value per
\* share is above the current price, OVERVALUED when the two are equal, and
\* reports abs(1 - fair value / current price).
C7_Verdict ==
    (RunOver /\ Len(screen) > 0 /\ IsVerdict(Last)) =>
        LET fair == m.calculated_share_price
            price == data.CurrentPrice
        IN  /\ screen[Len(screen) - 1] = Metric("Fair Value (Calculated)", fair)
            /\ Last.label = "UNDERVALUED" <=> Above(fair, price)
            /\ Last.widget = "success" <=> Last.label = "UNDERVALUED"
            /\ fair = price => Last.label = "OVERVALUED"
            /\ Last.by = Abs(Sub(R(1), Div(fair, price)))

\* the tie: fair value per share equal to the current price
C7_Witness ==
    /\ pc = "done"
    /\ Len(screen) > 0
    /\ IsVerdict(Last)
    /\ m.calculated_share_price = data.CurrentPrice
    /\ Last.label = "OVERVALUED"

(***************************************************************************)
(* C8                                                                      *)
(***************************************************************************)
Sum4(row) == row[1] + row[2] + row[3] + row[4]

\* C8: the TTM step raises nothing when the revenue and operating cash flow rows
\* exist, and leaves ttm_fcf = op_cash + the 4-quarter sum of 'Capital
\* Expenditure' if the table has it, else of 'Capex' if the table has that,
\* else op_cash itself.
C8_CapEx ==
    [][(/\ pc = "gdi_ttm"
        /\ "Total Revenue" \in DOMAIN stock[1].quarterly_financials
        /\ "Operating Cash Flow" \in DOMAIN stock[1].quarterly_cash_flow) =>
           LET cf == stock[1].quarterly_cash_flow
               op_cash == Sum4(cf["Operating Cash Flow"])
           IN  /\ pc' = "gdi_coe"
               /\ exc' = "none"
               /\ loc'.op_cash = R(op_cash)
               /\ loc'.ttm_fcf =
                      IF "Capital Expenditure" \in DOMAIN cf
                      THEN R(op_cash + Sum4(cf["Capital Expenditure"]))
                      ELSE IF "Capex" \in DOMAIN cf
                      THEN R(op_cash + Sum4(cf["Capex"]))
                      ELSE R(op_cash)]_vars

\* both labels in the table, with different sums: the priority decides
C8_Witness ==
    /\ pc = "gdi_coe"
    /\ {"Capital Expenditure", "Capex"} \subseteq DOMAIN stock[1].quarterly_cash_flow
    /\ Sum4(stock[1].quarterly_cash_flow["Capital Expenditure"])
           # Sum4(stock[1].quarterly_cash_flow["Capex"])
    /\ loc.ttm_fcf # Unbound

====
